---- MODULE Spec2Model ----
(***************************************************************************)
(* Model of cordova-lib's plugman fetch (src/plugman/fetch.js): resolving  *)
(* a plugin reference to a source directory, materializing it into the     *)
(* plugin store and verifying its identity.                                *)
(*                                                                         *)
(* JavaScript strings are sequences of one-character strings, so that      *)
(* url.parse, the fragment regular expression, String.split and path.join  *)
(* are computed character by character.  The empty sequence stands for     *)
(* every falsy string value (undefined, null, '').                         *)
(*                                                                         *)
(* The filesystem is a function from absolute paths (sequences of path     *)
(* segments, the process's working directory being the root) to entries:   *)
(* a directory, a file with its data, or a symbolic link with its target.  *)
(***************************************************************************)
EXTENDS Integers, Sequences, FiniteSets, TLC

VARIABLES
    fs,            \* the filesystem: the plugin store, the local sources, the caches
    localPlugins,  \* fetch.js:37, the process-wide cache of the search path's plugins
    ops,           \* the fetchPlugin operations: arguments and position in the promise chain
    calls          \* number of fetchPlugin calls issued so far

vars == <<fs, localPlugins, ops, calls>>

\* Calls issued in one run.
MaxCalls == 2

\* Symbolic links followed while resolving one path before ELOOP is raised.
MaxSymlinks == 2

-----------------------------------------------------------------------------
(* Strings                                                                 *)

Empty == << >>

RECURSIVE IndexOfFrom(_, _, _)
IndexOfFrom(s, c, i) ==
    IF i > Len(s) THEN 0
    ELSE IF s[i] = c THEN i
    ELSE IndexOfFrom(s, c, i + 1)

\* String.prototype.indexOf, 1-based; 0 when c does not occur.
IndexOf(s, c) == IndexOfFrom(s, c, 1)

\* The characters of s after position i.
From(s, i) == SubSeq(s, i + 1, Len(s))

\* String.prototype.split on a one-character separator.
RECURSIVE Split(_, _)
Split(s, c) ==
    IF IndexOf(s, c) = 0 THEN <<s>>
    ELSE <<SubSeq(s, 1, IndexOf(s, c) - 1)>> \o Split(From(s, IndexOf(s, c)), c)

RECURSIVE JoinWith(_, _)
JoinWith(parts, c) ==
    IF parts = << >> THEN << >>
    ELSE IF Len(parts) = 1 THEN parts[1]
    ELSE parts[1] \o <<c>> \o JoinWith(Tail(parts), c)

LowerCase ==
    [c \in {"C", "D", "H"} |-> CASE c = "C" -> "c" [] c = "D" -> "d" [] c = "H" -> "h"]

ToLower(s) == [i \in 1..Len(s) |-> IF s[i] \in DOMAIN LowerCase THEN LowerCase[s[i]] ELSE s[i]]

Letters ==
    {"a", "b", "c", "d", "e", "f", "g", "h", "i", "j", "k", "l", "m",
     "n", "o", "p", "q", "r", "s", "t", "u", "v", "w", "x", "y", "z",
     "C", "D", "H"}

Digits == {"0", "1", "2", "3", "4", "5", "6", "7", "8", "9"}

-----------------------------------------------------------------------------
(* url.parse and the fragment grammar                                      *)

\* url.parse(plugin_src).protocol: the lower-cased match of /^[a-z0-9.+-]+:/i.
ProtocolAt(plugin_src, i) ==
    IF i > 1 /\ \A k \in 1..(i - 1) : plugin_src[k] \in Letters \cup Digits \cup {".", "+", "-"}
    THEN ToLower(SubSeq(plugin_src, 1, i))
    ELSE Empty

UrlProtocol(plugin_src) == ProtocolAt(plugin_src, IndexOf(plugin_src, ":"))

\* url.parse(plugin_src).hash: everything from the first '#'.
HashAt(plugin_src, i) == IF i = 0 THEN Empty ELSE SubSeq(plugin_src, i, Len(plugin_src))

UrlHash(plugin_src) == HashAt(plugin_src, IndexOf(plugin_src, "#"))

StripLeadingSlash(s) == IF s # << >> /\ Head(s) = "/" THEN Tail(s) ELSE s

StripTrailingSlash(s) == IF s # << >> /\ s[Len(s)] = "/" THEN SubSeq(s, 1, Len(s) - 1) ELSE s

\* uri.hash.match(/^#([^:]*)(?::\/?(.*?)\/?)?$/): result[1] and result[2].
\* Group 1 runs to the first ':'; group 2 is what follows it less one leading
\* and then one trailing '/'.  The strings of the model hold no line terminator,
\* so the expression always matches.
MatchAt(body, i) ==
    IF i = 0
    THEN [ref |-> body, subdir |-> Empty]
    ELSE [ref    |-> SubSeq(body, 1, i - 1),
          subdir |-> StripTrailingSlash(StripLeadingSlash(From(body, i)))]

HashMatch(hash) == MatchAt(Tail(hash), IndexOf(Tail(hash), ":"))

\* The position of the last c in s; 0 when c does not occur.
LastIndexOf(s, c) ==
    IF \E n \in DOMAIN s : s[n] = c
    THEN CHOOSE n \in DOMAIN s : s[n] = c /\ \A m \in (n + 1)..Len(s) : s[m] # c
    ELSE 0

\* A truncation at the last '#' (lastIndexOf for indexOf).
TruncateAtLast(plugin_src) == SubSeq(plugin_src, 1, LastIndexOf(plugin_src, "#") - 1)

\* plugin_src.substring(0, plugin_src.indexOf('#'))
Truncate(plugin_src) == SubSeq(plugin_src, 1, IndexOf(plugin_src, "#") - 1)

\* plugin_src.match(/^\w+:\\/)
DriveAt(plugin_src, i) ==
    /\ i > 1
    /\ \A k \in 1..(i - 1) : plugin_src[k] \in Letters \cup Digits \cup {"_"}
    /\ Len(plugin_src) > i
    /\ plugin_src[i + 1] = "\\"

MatchesDrive(plugin_src) == DriveAt(plugin_src, IndexOf(plugin_src, ":"))

\* fetch.js:73, "If it looks like a network URL, git clone it."
NetworkProtocol(protocol) ==
    /\ protocol # Empty
    /\ protocol # <<"f", "i", "l", "e", ":">>
    /\ protocol # <<"c", ":">>

IsNetworkURL(plugin_src) ==
    NetworkProtocol(UrlProtocol(plugin_src)) /\ ~MatchesDrive(plugin_src)

-----------------------------------------------------------------------------
(* Paths                                                                   *)

Dot == <<".">>
DotDot == <<".", ".">>

NonEmpty(parts) == SelectSeq(parts, LAMBDA x : x # << >>)

\* normalizeArray of node's path module: '.' is dropped, '..' pops.
RECURSIVE NormalizeArray(_, _, _)
NormalizeArray(parts, acc, allowAboveRoot) ==
    IF parts = << >> THEN acc
    ELSE IF Head(parts) = Dot THEN NormalizeArray(Tail(parts), acc, allowAboveRoot)
    ELSE IF Head(parts) = DotDot
    THEN IF acc # << >> /\ acc[Len(acc)] # DotDot
         THEN NormalizeArray(Tail(parts), SubSeq(acc, 1, Len(acc) - 1), allowAboveRoot)
         ELSE IF allowAboveRoot
         THEN NormalizeArray(Tail(parts), Append(acc, Head(parts)), allowAboveRoot)
         ELSE NormalizeArray(Tail(parts), acc, allowAboveRoot)
    ELSE NormalizeArray(Tail(parts), Append(acc, Head(parts)), allowAboveRoot)

IsAbsolute(path) == path # << >> /\ Head(path) = "/"

Segments(path) == NonEmpty(Split(path, "/"))

\* The tail of path.normalize: '.' for an empty relative path, the trailing
\* slash kept, the leading slash of an absolute path put back.
Normalized(body, isAbsolute, trailingSlash) ==
    (IF isAbsolute THEN <<"/">> ELSE << >>)
    \o (IF body = << >> /\ ~isAbsolute THEN Dot ELSE body)
    \o (IF trailingSlash /\ (body # << >> \/ ~isAbsolute) THEN <<"/">> ELSE << >>)

\* path.normalize (posix)
PathNormalize(path) ==
    Normalized(JoinWith(NormalizeArray(Segments(path), << >>, ~IsAbsolute(path)), "/"),
               IsAbsolute(path), path # << >> /\ path[Len(path)] = "/")

\* path.join (posix) of two strings
PathJoin(a, b) == PathNormalize(JoinWith(NonEmpty(<<a, b>>), "/"))

\* path.delimiter (posix)
PathDelimiter == ":"

-----------------------------------------------------------------------------
(* The filesystem                                                          *)

Dir == [type |-> "dir"]
File(data) == [type |-> "file", data |-> data]
Link(target) == [type |-> "link", target |-> target]

PluginXml == <<"p", "l", "u", "g", "i", "n", ".", "x", "m", "l">>
FetchJson == <<".", "f", "e", "t", "c", "h", ".", "j", "s", "o", "n">>

\* What resolving a path yields when it runs through too many symbolic links.
ELOOP == << <<"!">> >>

IsPrefix(k, key) == Len(k) <= Len(key) /\ SubSeq(key, 1, Len(k)) = k

Parent(k) == SubSeq(k, 1, Len(k) - 1)

\* The kernel's path walk: each component in turn, following symbolic links
\* (a relative target is resolved against the directory holding the link).
RECURSIVE Walk(_, _, _, _)
Walk(f, rest, cur, fuel) ==
    IF rest = << >> THEN cur
    ELSE IF Head(rest) = Dot THEN Walk(f, Tail(rest), cur, fuel)
    ELSE IF Head(rest) = DotDot
    THEN Walk(f, Tail(rest), IF cur = << >> THEN cur ELSE Parent(cur), fuel)
    ELSE IF Append(cur, Head(rest)) \in DOMAIN f /\ f[Append(cur, Head(rest))].type = "link"
    THEN IF fuel = 0 THEN ELOOP
         ELSE Walk(f, Segments(f[Append(cur, Head(rest))].target) \o Tail(rest),
                   IF IsAbsolute(f[Append(cur, Head(rest))].target) THEN << >> ELSE cur,
                   fuel - 1)
    ELSE Walk(f, Tail(rest), Append(cur, Head(rest)), fuel)

\* stat: the entry's own path with every symbolic link followed.
Resolve(f, path) == Walk(f, Segments(path), << >>, MaxSymlinks)

Below(parent, name) == IF parent = ELOOP THEN ELOOP ELSE Append(parent, name)

LastNotFollowed(f, parts) ==
    IF parts = << >> THEN << >>
    ELSE Below(Walk(f, Parent(parts), << >>, MaxSymlinks), parts[Len(parts)])

\* lstat: the last component is not followed.
LResolve(f, path) == LastNotFollowed(f, NormalizeArray(Segments(path), << >>, FALSE))

IsDirKey(f, k) == k # ELOOP /\ (k = << >> \/ (k \in DOMAIN f /\ f[k].type = "dir"))

IsDirectory(f, path) == IsDirKey(f, Resolve(f, path))

ExistsKey(f, k) == k # ELOOP /\ (k = << >> \/ k \in DOMAIN f)

\* fs.existsSync
ExistsSync(f, path) == ExistsKey(f, Resolve(f, path))

\* f with the entries of g written over it
Overwrite(f, g) == [k \in DOMAIN f \cup DOMAIN g |-> IF k \in DOMAIN g THEN g[k] ELSE f[k]]

\* f with entry e written at k
WriteAt(f, k, e) == [p \in DOMAIN f \cup {k} |-> IF p = k THEN e ELSE f[p]]

MkdirKey(f, k) ==
    IF k = ELOOP THEN f
    ELSE [p \in DOMAIN f \cup {SubSeq(k, 1, n) : n \in 1..Len(k)} |->
             IF p \in DOMAIN f THEN f[p] ELSE Dir]

\* shell.mkdir('-p', path)
MkdirP(f, path) == MkdirKey(f, Resolve(f, path))

RemoveKey(f, k) ==
    IF k = ELOOP \/ k = << >> THEN f
    ELSE [p \in {q \in DOMAIN f : ~IsPrefix(k, q)} |-> f[p]]

\* shell.rm('-rf', path): a symbolic link is unlinked, a directory goes with
\* everything below it.
RmRf(f, path) == RemoveKey(f, LResolve(f, path))

LinkKey(f, target, k) ==
    IF k = ELOOP \/ k = << >> \/ k \in DOMAIN f \/ ~IsDirKey(f, Parent(k))
    THEN [ok |-> FALSE, fs |-> f]
    ELSE [ok |-> TRUE, fs |-> WriteAt(f, k, Link(target))]

\* fs.symlinkSync(target, path, 'dir'): throws when path exists or its
\* parent directory does not.
SymlinkSync(f, target, path) == LinkKey(f, target, LResolve(f, path))

\* The entries the glob src/* matches, with all below them.
Matched(f, sk) ==
    {q \in DOMAIN f : IsPrefix(sk, q) /\ Len(q) > Len(sk) /\ Head(q[Len(sk) + 1]) # "."}

CopyKeys(f, sk, dk) ==
    IF ~IsDirKey(f, sk) \/ ~IsDirKey(f, dk) THEN f
    ELSE [p \in DOMAIN f \cup {dk \o SubSeq(q, Len(sk) + 1, Len(q)) : q \in Matched(f, sk)} |->
             IF IsPrefix(dk, p) /\ sk \o SubSeq(p, Len(dk) + 1, Len(p)) \in Matched(f, sk)
             THEN f[sk \o SubSeq(p, Len(dk) + 1, Len(p))]
             ELSE f[p]]

\* shell.cp('-R', path.join(src, '*'), dest): the glob leaves out the names
\* that begin with a dot; what it matches is copied with all below it.
\* When nothing matches, or dest is no directory, shelljs logs and returns.
CpGlob(f, src, dest) == CopyKeys(f, Resolve(f, src), Resolve(f, dest))

Descriptor(id, version) == [id |-> id, version |-> version]

\* A plugin's directory: its manifest and one file of code, named file.
PluginTree(k, id, version, file) ==
    [p \in {k, Append(k, PluginXml), Append(k, file)} |->
        IF p = k THEN Dir
        ELSE IF p = Append(k, PluginXml) THEN File(Descriptor(id, version))
        ELSE File([text |-> file])]

-----------------------------------------------------------------------------
(* PluginInfo and the provenance record                                    *)

ManifestAt(f, x, dir) ==
    IF x # ELOOP /\ x \in DOMAIN f /\ f[x].type = "file"
    THEN [ok |-> TRUE, id |-> f[x].data.id, version |-> f[x].data.version, dir |-> dir]
    ELSE [ok |-> FALSE, id |-> Empty, version |-> Empty, dir |-> dir]

\* new PluginInfo.PluginInfo(dir): the manifest of dir. ok is FALSE when the
\* constructor throws because dir holds no plugin.xml.
PluginInfo(f, dir) == ManifestAt(f, Below(Resolve(f, dir), PluginXml), dir)

\* The names directly below a directory, in the order readdir lists them.
RECURSIVE Listing(_)
Listing(names) ==
    IF names = {} THEN << >>
    ELSE <<CHOOSE x \in names : TRUE>> \o Listing(names \ {CHOOSE x \in names : TRUE})

Names(f, k) ==
    IF ~IsDirKey(f, k) THEN {}
    ELSE {q[Len(k) + 1] : q \in {q \in DOMAIN f : IsPrefix(k, q) /\ Len(q) = Len(k) + 1}}

Loaded(f, dir, listing) ==
    SelectSeq([i \in 1..Len(listing) |-> PluginInfo(f, PathJoin(dir, listing[i]))],
              LAMBDA p : p.ok)

\* PluginInfo.loadPluginsDir(dir): the PluginInfo of every sub-directory of
\* dir that holds a manifest.
loadPluginsDir(f, dir) == Loaded(f, dir, Listing(Names(f, Resolve(f, dir))))

SavedAt(f, k, data) ==
    IF IsDirKey(f, k)
    THEN [ok |-> TRUE, fs |-> WriteAt(f, Append(k, FetchJson), File(data))]
    ELSE [ok |-> FALSE, fs |-> f]

\* metadata.save_fetch_metadata(dir, data): writes dir/.fetch.json; throws
\* when dir is no directory.
save_fetch_metadata(f, dir, data) == SavedAt(f, Resolve(f, dir), data)

-----------------------------------------------------------------------------
(* fetch.js                                                                *)

\* fetch.js:37
Null == [built |-> FALSE, map |-> << >>]

\* A comparison of the identifiers alone.
ComparedById(expected_id, pinfo) ==
    IF ~pinfo.ok THEN "NoManifest"
    ELSE IF Split(expected_id, "@")[1] # pinfo.id THEN "IdentityMismatch"
    ELSE "ok"

\* fetch.js:144-150: the comparison of the manifest with expected_id
Compared(expected_id, pinfo) ==
    IF ~pinfo.ok THEN "NoManifest"
    ELSE IF expected_id #
            (IF Len(Split(expected_id, "@")) > 1
             THEN pinfo.id \o <<"@">> \o pinfo.version
             ELSE pinfo.id)
    THEN "IdentityMismatch"
    ELSE "ok"

\* fetch.js:140-151. The outcome of checkID(expected_id, dir): "ok" when it
\* returns, else what it throws.
checkID(f, expected_id, dir) ==
    IF expected_id = Empty THEN "ok" ELSE Compared(expected_id, PluginInfo(f, dir))

\* An index that keeps the entry it has.
RECURSIVE IndexedFirst(_, _)
IndexedFirst(map, ps) ==
    IF ps = << >> THEN map
    ELSE IndexedFirst([id \in DOMAIN map \cup {Head(ps).id} |->
                          IF id \in DOMAIN map THEN map[id] ELSE Head(ps)],
                      Tail(ps))

\* fetch.js:161-163: ps.forEach(function(p) { localPlugins[p.id] = p; })
RECURSIVE Indexed(_, _)
Indexed(map, ps) ==
    IF ps = << >> THEN map
    ELSE Indexed([id \in DOMAIN map \cup {Head(ps).id} |->
                     IF id = Head(ps).id THEN Head(ps) ELSE map[id]],
                 Tail(ps))

\* fetch.js:159-164, the forEach over the search path
RECURSIVE ScanSearchPath(_, _, _)
ScanSearchPath(f, map, searchpath) ==
    IF searchpath = << >> THEN map
    ELSE ScanSearchPath(f, Indexed(map, loadPluginsDir(f, Head(searchpath))), Tail(searchpath))

\* A loadLocalPlugins without line 157.
loadLocalPluginsAgain(f, cache, searchpath) ==
    [built |-> TRUE, map |-> ScanSearchPath(f, << >>, searchpath)]

\* fetch.js:156-165
loadLocalPlugins(f, cache, searchpath) ==
    IF cache.built THEN cache
    ELSE [built |-> TRUE, map |-> ScanSearchPath(f, << >>, searchpath)]

\* fetch.js:181-188
Recorded(saved, dest) == [ok |-> saved.ok, fs |-> saved.fs, dest |-> dest]

\* fetch.js:172-174
Symlinked(linked, dest, data) ==
    IF ~linked.ok THEN [ok |-> FALSE, fs |-> linked.fs, dest |-> dest]
    ELSE Recorded(save_fetch_metadata(linked.fs, dest, data), dest)

\* fetch.js:171-188
Placed(removed, plugin_dir, dest, link, data) ==
    IF link
    THEN Symlinked(SymlinkSync(removed, plugin_dir, dest), dest, data)
    ELSE Recorded(save_fetch_metadata(CpGlob(MkdirP(removed, dest), plugin_dir, dest),
                                      dest, data),
                  dest)

\* fetch.js:170-188
Replaced(f, plugin_dir, dest, link) ==
    Placed(RmRf(f, dest), plugin_dir, dest, link,
           [source |-> [type |-> "local", path |-> plugin_dir]])

\* fetch.js:169-170
CopiedAs(f, pinfo, plugin_dir, plugins_dir, link) ==
    IF ~pinfo.ok THEN [ok |-> FALSE, fs |-> f, dest |-> Empty]
    ELSE Replaced(f, plugin_dir, PathJoin(plugins_dir, pinfo.id), link)

\* fetch.js:168-189. ok is FALSE when copyPlugin throws; fs is the filesystem
\* it leaves either way, dest what it returns.
copyPlugin(f, plugin_dir, plugins_dir, link) ==
    CopiedAs(f, PluginInfo(f, plugin_dir), plugin_dir, plugins_dir, link)

\* The directory every call of the model materializes into.
PluginsDir == <<"p">>

\* What one fetchPlugin operation holds: the arguments of the call, the
\* plugin_src and options of the invocation that resolved (after the fragment
\* was stripped), the value its promise chain carries, and the callback the
\* chain is to run next (pc).  called lists the collaborators the operation
\* has invoked, trace the steps it has completed, reentries the recursive
\* calls of line 68, checked what checkID read.
Operation(pc, plugin_src, options, dir, linkable, route, err, data, called) ==
    [pc |-> pc, args |-> [plugin_src |-> plugin_src, options |-> options],
     plugin_src |-> plugin_src, options |-> options, dir |-> dir,
     linkable |-> linkable, route |-> route, err |-> err, data |-> data,
     called |-> called, reentries |-> 0, checked |-> << >>, trace |-> << >>]

NoData == [source |-> [type |-> "none"]]

\* fetch.js:46-51
DefaultOptions(options) ==
    [options EXCEPT
        !.subdir = IF options.subdir = Empty THEN Dot ELSE options.subdir,
        !.searchpath =
            IF options.searchpath.type = "string" /\ options.searchpath.value # Empty
            THEN [type |-> "array", value |-> Split(options.searchpath.value, PathDelimiter)]
            ELSE IF options.searchpath.type = "array" THEN options.searchpath
            ELSE [type |-> "array", value |-> << >>]]

\* Both fields of the fragment assigned, empty or not.
FragmentOptionsAssigned(options, result) ==
    [options EXCEPT !.git_ref = result.ref, !.subdir = result.subdir]

\* fetch.js:61-64
FragmentOptions(options, result) ==
    [options EXCEPT
        !.git_ref = IF result.ref # Empty THEN result.ref ELSE options.git_ref,
        !.subdir  = IF result.subdir # Empty THEN result.subdir ELSE options.subdir]

\* A clone's chain that saves the record before it checks.
GitChainSaveFirst == <<"save", "check", "fulfilled">>

\* A clone's chain without lines 88-91.
GitChainUnchecked == <<"save", "fulfilled">>

\* fetch.js:87-95, the callbacks chained on the clone's promise
GitChain == <<"check", "save", "fulfilled">>

\* A chain that checks the source directory before it copies.
LocalChainCheckFirst == <<"check", "copy", "fulfilled">>

\* fetch.js:127-135, the callbacks chained on p
LocalChain == <<"copy", "check", "fulfilled">>

Chain(route) == IF route = "git" THEN GitChain ELSE LocalChain

\* The callback that follows pc in the operation's chain.
After(route, pc) == Chain(route)[(CHOOSE n \in 1..Len(Chain(route)) : Chain(route)[n] = pc) + 1]

\* A fetch that reads no link option on the network branch.
LinkIgnored(options) == FALSE

\* fetch.js:75
LinkRequested(options) == options.link

\* fetch.js:74-96, the network URL branch: the operation as fetchPlugin leaves it
GitBranch(plugin_src, options) ==
    IF LinkRequested(options)
    THEN Operation("rejected", plugin_src, options, Empty, FALSE, "git",
                   "UnsupportedOperation", NoData, {})
    ELSE Operation("clone", plugin_src, options, Empty, FALSE, "git", "",
                   [source |-> [type |-> "git", url |-> plugin_src,
                                subdir |-> options.subdir, ref |-> options.git_ref]],
                   {"clonePluginGit"})

\* A fetch that leaves linkable as line 101 set it.
RegistryStaysLinkable == TRUE

\* fetch.js:101 and 121: what the registry fetched is not linkable
RegistryLinkable == FALSE

\* A fetch that reads no noregistry option.
RegistryNeverDisabled(options) == FALSE

\* fetch.js:114
RegistryDisabled(options) == options.noregistry

\* fetch.js:110-124, with the cache as loadLocalPlugins left it
Looked(loaded, plugin_src, options) ==
    IF plugin_src \in DOMAIN loaded.map
    THEN [cache |-> loaded,
          op |-> Operation(Head(LocalChain), plugin_src, options,
                           loaded.map[plugin_src].dir, TRUE, "searchpath", "", NoData, {})]
    ELSE IF RegistryDisabled(options)
    THEN [cache |-> loaded,
          op |-> Operation("rejected", plugin_src, options, Empty, TRUE, "none",
                           "NotFound", NoData, {})]
    ELSE [cache |-> loaded,
          op |-> Operation("registry", plugin_src, options, Empty, RegistryLinkable,
                           "registry", "", NoData, {"registry.fetch"})]

\* A fetch that looks in the index before it looks on disk.
LocatedIndexFirst(f, cache, plugin_src, options, plugin_dir) ==
    IF plugin_src \in DOMAIN cache.map
    THEN [cache |-> cache,
          op |-> Operation(Head(LocalChain), plugin_src, options,
                           cache.map[plugin_src].dir, TRUE, "searchpath", "", NoData, {})]
    ELSE IF ExistsSync(f, plugin_dir)
    THEN [cache |-> cache,
          op |-> Operation(Head(LocalChain), plugin_src, options, plugin_dir, TRUE,
                           "path", "", NoData, {})]
    ELSE Looked(loadLocalPlugins(f, cache, options.searchpath.value), plugin_src, options)

\* fetch.js:104-125, with plugin_dir as line 102 computed it
Located(f, cache, plugin_src, options, plugin_dir) ==
    IF ExistsSync(f, plugin_dir)
    THEN [cache |-> cache,
          op |-> Operation(Head(LocalChain), plugin_src, options, plugin_dir, TRUE,
                           "path", "", NoData, {})]
    ELSE Looked(loadLocalPlugins(f, cache, options.searchpath.value), plugin_src, options)

\* fetch.js:100-125, the local path or plugin id branch
LocalBranch(f, cache, plugin_src, options) ==
    Located(f, cache, plugin_src, options, PathJoin(plugin_src, options.subdir))

Reentered(r) == [r EXCEPT !.op.reentries = @ + 1]

Branched(f, r) == [fs |-> f, cache |-> r.cache, op |-> r.op]

\* fetch.js:42-137, fetchPlugin up to the promise it returns: f is the
\* filesystem after line 44, options the options after lines 46-51.
RECURSIVE Fetched(_, _, _, _, _)
Fetched(f, cache, plugin_src, plugins_dir, options) ==
    IF UrlHash(plugin_src) # Empty
    THEN Reentered(Fetched(MkdirP(f, plugins_dir), cache, Truncate(plugin_src), plugins_dir,
                           DefaultOptions(FragmentOptions(options, HashMatch(UrlHash(plugin_src))))))
    ELSE IF IsNetworkURL(plugin_src)
    THEN [fs |-> f, cache |-> cache, op |-> GitBranch(plugin_src, options)]
    ELSE Branched(f, LocalBranch(f, cache, plugin_src, options))

fetchPlugin(f, cache, plugin_src, plugins_dir, options) ==
    Fetched(MkdirP(f, plugins_dir), cache, plugin_src, plugins_dir, DefaultOptions(options))

-----------------------------------------------------------------------------
(* The environment: what is on disk, and what the callers ask for          *)

Str_x == <<"x">>
Str_y == <<"y">>
AbsX == <<"/", "x">>
StoreX == <<"p", "/", "x">>
GitUrl == <<"h", "t", "t", "p", ":", "/", "/", "g">>
SearchA == <<"/", "a">>
SearchB == <<"/", "b">>

\* Local sources: plugin x at /x with plugin y in its sub-directory s; the
\* search path directories /a (x 1) and /b (x 2, y 1); the directories the
\* registry client unpacks into, /r/x (x 2) and /r/y (y 1).  Each holds a
\* file of code named after where it is.
SourcePlugins ==
    <<[k |-> <<<<"x">>>>,          id |-> Str_x, version |-> <<"1">>, file |-> <<"l">>],
      [k |-> <<<<"x">>, <<"s">>>>, id |-> Str_y, version |-> <<"1">>, file |-> <<"l", "s">>],
      [k |-> <<<<"a">>, <<"x">>>>, id |-> Str_x, version |-> <<"1">>, file |-> <<"a">>],
      [k |-> <<<<"b">>, <<"x">>>>, id |-> Str_x, version |-> <<"2">>, file |-> <<"b">>],
      [k |-> <<<<"b">>, <<"y">>>>, id |-> Str_y, version |-> <<"1">>, file |-> <<"b">>],
      [k |-> <<<<"r">>, <<"x">>>>, id |-> Str_x, version |-> <<"2">>, file |-> <<"r">>],
      [k |-> <<<<"r">>, <<"y">>>>, id |-> Str_y, version |-> <<"1">>, file |-> <<"r">>]>>

RECURSIVE Planted(_, _)
Planted(f, plugins) ==
    IF plugins = << >> THEN f
    ELSE Planted(Overwrite(f, PluginTree(Head(plugins).k, Head(plugins).id,
                                         Head(plugins).version, Head(plugins).file)),
                 Tail(plugins))

Sources == Planted([p \in {<<<<"a">>>>, <<<<"b">>>>, <<<<"r">>>>} |-> Dir], SourcePlugins)

\* What a clone of the repository may hold.
GitPlugins == {Descriptor(Str_x, <<"1">>), Descriptor(Str_y, <<"1">>)}

\* Where the registry client may have unpacked what it fetched.
RegistryDirs == {<<"/", "r", "/", "x">>, <<"/", "r", "/", "y">>}

\* Paths and identifiers: x names both a directory and a plugin of the search
\* path, y only a plugin, p/x the installation in the store itself.
LocalSources == {Str_x, AbsX, Str_y, StoreX, AbsX \o <<"#", "r", ":", "s">>}

GitSources == {GitUrl}

Fragments == {Empty, <<"#", "r">>, <<"#", "r", ":", "s">>, <<"#", ":", "/", "s", "/">>}

SearchPaths ==
    {[type |-> "undefined", value |-> << >>],
     [type |-> "array", value |-> <<SearchA, SearchB>>],
     [type |-> "string", value |-> SearchB \o <<PathDelimiter>> \o SearchA]}

ExpectedIds == {Empty, Str_x, <<"x", "@", "1">>}

\* The calls of the model: a git URL with the options the clone reads, a
\* path or identifier with the options its resolution reads.
GitCalls ==
    [plugin_src : {src \o frag : src \in GitSources, frag \in Fragments},
     options : [link : BOOLEAN, subdir : {Empty}, git_ref : {Empty, <<"q">>},
                searchpath : {[type |-> "undefined", value |-> << >>]},
                noregistry : {FALSE}, expected_id : ExpectedIds]]

LocalCalls ==
    [plugin_src : LocalSources,
     options : [link : BOOLEAN, subdir : {Empty}, git_ref : {Empty},
                searchpath : SearchPaths,
                noregistry : BOOLEAN, expected_id : ExpectedIds]]

Idle == Operation("idle", Empty, [link |-> FALSE], Empty, FALSE, "none", "", NoData, {})

\* The operations that may be in flight at once.
Slots == {1, 2}

-----------------------------------------------------------------------------
(* The operations                                                          *)

Init ==
    /\ fs = Sources
    /\ localPlugins = Null
    /\ ops = [o \in Slots |-> Idle]
    /\ calls = 0

\* The state fetchPlugin leaves when it returns r.  On an existing path or a
\* search path hit the promise p is fulfilled at once (lines 105 and 112).
Returned(o, plugin_src, options, r) ==
    /\ fs' = r.fs
    /\ localPlugins' = r.cache
    /\ ops' = [ops EXCEPT ![o] =
                 [r.op EXCEPT !.args = [plugin_src |-> plugin_src, options |-> options],
                              !.trace = IF r.op.route \in {"path", "searchpath"}
                                        THEN <<"resolve">> ELSE << >>]]

\* A caller invokes fetchPlugin(plugin_src, plugins_dir, options); the call
\* runs to the promise it returns.
Call(o, plugin_src, options) ==
    /\ ops[o].pc = "idle"
    /\ calls < MaxCalls
    /\ Returned(o, plugin_src, options,
                fetchPlugin(fs, localPlugins, plugin_src, PluginsDir, options))
    /\ calls' = calls + 1

Cloned(o, plugin, dest) ==
    /\ fs' = Overwrite(RmRf(fs, dest),
                       PluginTree(LResolve(fs, dest), plugin.id, plugin.version, <<"g">>))
    /\ ops' = [ops EXCEPT ![o].pc = Head(GitChain), ![o].dir = dest,
                          ![o].trace = <<"resolve", "materialize">>]

\* plugins.clonePluginGit fulfils its promise: it has cloned the repository,
\* checked out the ref and put the plugin it found at plugins_dir/<id>.
CloneFulfils(o, plugin) ==
    /\ ops[o].pc = "clone"
    /\ Cloned(o, plugin, PathJoin(PluginsDir, plugin.id))
    /\ UNCHANGED <<localPlugins, calls>>

\* plugins.clonePluginGit or registry.fetch rejects its promise.
CollaboratorRejects(o) ==
    /\ ops[o].pc \in {"clone", "registry"}
    /\ ops' = [ops EXCEPT ![o].pc = "rejected",
                          ![o].err = IF ops[o].pc = "clone" THEN "GitError" ELSE "NetworkError"]
    /\ UNCHANGED <<fs, localPlugins, calls>>

\* registry.fetch fulfils its promise with the directory it unpacked into.
RegistryFulfils(o, dir) ==
    /\ ops[o].pc = "registry"
    /\ ops' = [ops EXCEPT ![o].pc = Head(LocalChain), ![o].dir = dir,
                          ![o].trace = <<"resolve">>]
    /\ UNCHANGED <<fs, localPlugins, calls>>

Copied(o, r) ==
    /\ fs' = r.fs
    /\ ops' = IF r.ok
              THEN [ops EXCEPT ![o].pc = After(ops[o].route, "copy"), ![o].dir = r.dest,
                               ![o].trace = Append(@, "materialize")]
              ELSE [ops EXCEPT ![o].pc = "rejected", ![o].err = "CopyFailed"]

\* fetch.js:128-131
ThenCopy(o) ==
    /\ ops[o].pc = "copy"
    /\ Copied(o, copyPlugin(fs, ops[o].dir, PluginsDir, ops[o].options.link /\ ops[o].linkable))
    /\ UNCHANGED <<localPlugins, calls>>

\* The manifest checkID read in the directory it was given, if it found one.
Read(pinfo) == IF pinfo.ok THEN <<Descriptor(pinfo.id, pinfo.version)>> ELSE << >>

Checked(o, outcome, read) ==
    ops' = IF outcome = "ok"
           THEN [ops EXCEPT ![o].pc = After(ops[o].route, "check"),
                            ![o].checked = read,
                            ![o].trace = Append(@, "verify")]
           ELSE [ops EXCEPT ![o].pc = "rejected", ![o].err = outcome, ![o].checked = read]

\* fetch.js:132-135 and fetch.js:88-91
ThenCheck(o) ==
    /\ ops[o].pc = "check"
    /\ Checked(o, checkID(fs, ops[o].options.expected_id, ops[o].dir),
               IF ops[o].options.expected_id = Empty THEN << >>
               ELSE Read(PluginInfo(fs, ops[o].dir)))
    /\ UNCHANGED <<fs, localPlugins, calls>>

Saved(o, r) ==
    /\ fs' = r.fs
    /\ ops' = IF r.ok
              THEN [ops EXCEPT ![o].pc = After(ops[o].route, "save"),
                               ![o].trace = Append(@, "provenance")]
              ELSE [ops EXCEPT ![o].pc = "rejected", ![o].err = "SaveFailed"]

\* fetch.js:92-95
ThenSave(o) ==
    /\ ops[o].pc = "save"
    /\ Saved(o, save_fetch_metadata(fs, ops[o].dir, ops[o].data))
    /\ UNCHANGED <<localPlugins, calls>>

\* The caller has the promise's outcome; the operation is over.
Settle(o) ==
    /\ ops[o].pc \in {"fulfilled", "rejected"}
    /\ ops' = [ops EXCEPT ![o] = Idle]
    /\ UNCHANGED <<fs, localPlugins, calls>>

Step(o) ==
    \/ \E plugin \in GitPlugins : CloneFulfils(o, plugin)
    \/ \E dir \in RegistryDirs : RegistryFulfils(o, dir)
    \/ CollaboratorRejects(o)
    \/ ThenCopy(o)
    \/ ThenCheck(o)
    \/ ThenSave(o)
    \/ Settle(o)

\* One caller, one operation at a time.
Next ==
    \/ \E call \in GitCalls \cup LocalCalls : Call(1, call.plugin_src, call.options)
    \/ Step(1)

Spec == Init /\ [][Next]_vars

-----------------------------------------------------------------------------
(* One call, over references of every shape                                *)

DriveC == <<"c", ":", "/", "x">>
DriveUpperC == <<"C", ":", "/", "x">>
DriveD == <<"d", ":", "/", "x">>
DriveBackC == <<"c", ":", "\\", "x">>
DriveBackD == <<"D", ":", "\\", "x">>
FileUrl == <<"f", "i", "l", "e", ":", "/", "x">>

\* A git URL, paths, a plugin id, drive references and a file: URL.
ParseBases == {GitUrl, AbsX, Str_y, DriveC, DriveUpperC, DriveD, DriveBackC, DriveBackD, FileUrl}

\* Fragments #git-ref[:subdir]: with and without ref and subdir, with one
\* and with several slashes around the subdir, and with a second '#'.
ParseFragments ==
    {Empty,
     <<"#">>,
     <<"#", "r">>,
     <<"#", "r", ":", "s">>,
     <<"#", ":", "s">>,
     <<"#", "r", ":">>,
     <<"#", "r", ":", "/", "s", "/">>,
     <<"#", "r", ":", "/", "/", "s">>,
     <<"#", "r", ":", "s", "/", "/">>,
     <<"#", "r", ":", "/", "/">>,
     <<"#", "r", "#", "s">>,
     <<"#", "r", ":", "s", "#", "r", ":", "s">>}

ParseCalls ==
    [plugin_src : {base \o frag : base \in ParseBases, frag \in ParseFragments},
     options : [link : BOOLEAN, subdir : {Empty, <<"t">>}, git_ref : {Empty, <<"q">>},
                searchpath : {[type |-> "undefined", value |-> << >>]},
                noregistry : BOOLEAN, expected_id : {Empty}]]

\* The process has one call left to make: the store exists and is empty, as
\* an earlier rejected call leaves it.
ParseInit ==
    /\ fs = MkdirP(Sources, PluginsDir)
    /\ localPlugins = Null
    /\ ops = [o \in Slots |-> Idle]
    /\ calls = MaxCalls - 1

ParseNext ==
    \/ \E call \in ParseCalls : Call(1, call.plugin_src, call.options)
    \/ Step(1)

ParseSpec == ParseInit /\ [][ParseNext]_vars

-----------------------------------------------------------------------------
(* Two callers at once                                                     *)

\* The calls two callers make at the same time: the two plugins of the
\* search path directories given by their paths, /a/x (x 1) and /b/x (x 2),
\* a git URL and an identifier for the registry, each with the identifier
\* and version its caller expects.
ConcurrentCalls ==
    [plugin_src : {SearchA \o <<"/", "x">>, SearchB \o <<"/", "x">>, GitUrl, Str_y},
     options : [link : {FALSE}, subdir : {Empty}, git_ref : {Empty},
                searchpath : {[type |-> "undefined", value |-> << >>]},
                noregistry : {FALSE},
                expected_id : {<<"x", "@", "1">>, <<"x", "@", "2">>}]]

\* Each callback runs to its end; the callbacks of two operations interleave
\* as the event loop takes them.
ConcurrentNext ==
    \E o \in Slots :
        \/ \E call \in ConcurrentCalls : Call(o, call.plugin_src, call.options)
        \/ Step(o)

ConcurrentSpec == Init /\ [][ConcurrentNext]_vars

-----------------------------------------------------------------------------
(* The android platform project: its parser and the plugin handler         *)

\* Path segments of the application and of its android project.
Seg ==
    [www |-> <<"w", "w", "w">>,
     merges |-> <<"m", "e", "r", "g", "e", "s">>,
     platforms |-> <<"p", "l", "a", "t", "f", "o", "r", "m", "s">>,
     android |-> <<"a", "n", "d", "r", "o", "i", "d">>,
     assets |-> <<"a", "s", "s", "e", "t", "s">>,
     src |-> <<"s", "r", "c">>,
     res |-> <<"r", "e", "s">>,
     values |-> <<"v", "a", "l", "u", "e", "s">>,
     xml |-> <<"x", "m", "l">>,
     svn |-> <<".", "s", "v", "n">>,
     js |-> <<"j", "s">>,
     com |-> <<"c", "o", "m">>,
     phonegap |-> <<"p", "h", "o", "n", "e", "g", "a", "p">>,
     plugins |-> <<"p", "l", "u", "g", "i", "n", "s">>,
     childBrowser |-> <<"c", "h", "i", "l", "d", "B", "r", "o", "w", "s", "e", "r">>,
     childbrowser |-> <<"c", "h", "i", "l", "d", "b", "r", "o", "w", "s", "e", "r">>,
     ChildBrowser |-> <<"C", "h", "i", "l", "d", "B", "r", "o", "w", "s", "e", "r">>,
     drawable |-> <<"d", "r", "a", "w", "a", "b", "l", "e", "-", "l", "a", "n", "d", "-", "h", "d", "p", "i">>]

\* File names.
Name ==
    [manifest |-> <<"A", "n", "d", "r", "o", "i", "d", "M", "a", "n", "i", "f", "e", "s", "t", ".", "x", "m", "l">>,
     strings |-> <<"s", "t", "r", "i", "n", "g", "s", ".", "x", "m", "l">>,
     config |-> <<"c", "o", "n", "f", "i", "g", ".", "x", "m", "l">>,
     index |-> <<"i", "n", "d", "e", "x", ".", "h", "t", "m", "l">>,
     app |-> <<"a", "p", "p", ".", "j", "s">>,
     style |-> <<"s", "t", "y", "l", "e", ".", "c", "s", "s">>,
     old |-> <<"o", "l", "d", ".", "h", "t", "m", "l">>,
     screen |-> <<"s", "c", "r", "e", "e", "n", ".", "p", "n", "g">>,
     childbrowser |-> <<"c", "h", "i", "l", "d", "b", "r", "o", "w", "s", "e", "r", ".", "j", "s">>,
     ChildBrowser |-> <<"C", "h", "i", "l", "d", "B", "r", "o", "w", "s", "e", "r", ".", "j", "a", "v", "a">>,
     Other |-> <<"O", "t", "h", "e", "r", ".", "j", "a", "v", "a">>]

\* Where things are: the application's www and merges/android, the plugin's
\* directory, the android project and, in it, the documents, assets,
\* assets/www and the source root src.
At ==
    [www |-> <<Seg.www>>,
     merges |-> <<Seg.merges, Seg.android>>,
     plugin |-> <<Seg.ChildBrowser>>,
     project |-> <<Seg.platforms, Seg.android>>,
     manifest |-> <<Seg.platforms, Seg.android, Name.manifest>>,
     strings |-> <<Seg.platforms, Seg.android, Seg.res, Seg.values, Name.strings>>,
     config |-> <<Seg.platforms, Seg.android, Seg.res, Seg.xml, Name.config>>,
     res |-> <<Seg.platforms, Seg.android, Seg.res>>,
     assets |-> <<Seg.platforms, Seg.android, Seg.assets>>,
     platformWww |-> <<Seg.platforms, Seg.android, Seg.assets, Seg.www>>,
     src |-> <<Seg.platforms, Seg.android, Seg.src>>,
     package |-> <<Seg.platforms, Seg.android, Seg.src, Seg.com, Seg.phonegap, Seg.plugins, Seg.childBrowser>>]

\* An attribute the element does not carry.
Absent == "absent"

\* Every preference but 'default' written into the attribute as it stands.
SetOrientationUnchecked(activity, preference) ==
    CASE preference = "default" -> [activity EXCEPT !.orientation = Absent]
      [] preference = Absent -> activity
      [] OTHER -> [activity EXCEPT !.orientation = preference]

\* The orientation policy for one activity element.
SetOrientation(activity, preference) ==
    CASE preference = "default" -> [activity EXCEPT !.orientation = Absent]
      [] preference = "portrait" -> [activity EXCEPT !.orientation = "portrait"]
      [] preference = "landscape" -> [activity EXCEPT !.orientation = "landscape"]
      [] OTHER -> activity

\* The splash images of the configuration copied into their density folder.
RECURSIVE SplashCopied(_, _)
SplashCopied(f, splash) ==
    IF splash = << >> THEN f
    ELSE SplashCopied(
             WriteAt(MkdirKey(f, Append(At.res, Head(splash).density)),
                     At.res \o <<Head(splash).density, Name.screen>>,
                     f[Head(splash).src]),
             Tail(splash))

\* The documents after update_from_config: the name in strings.xml, the
\* package, the version and every activity's orientation in the manifest.
ConfigWritten(f, cfg) ==
    [k \in DOMAIN f |->
        IF k = At.strings THEN File([app_name |-> cfg.name])
        ELSE IF k = At.manifest
        THEN File([package |-> cfg.packageName,
                   versionName |-> cfg.version,
                   activities |-> [n \in DOMAIN f[k].data.activities |->
                                      SetOrientation(f[k].data.activities[n], cfg.orientation)]])
        ELSE f[k]]

\* update_from_config(cfg): throws unless cfg is a configuration; else
\* writes the documents and copies the splash images.
update_from_config(f, cfg) ==
    IF cfg.type # "ConfigParser" THEN [ok |-> FALSE, fs |-> f, log |-> << >>]
    ELSE [ok |-> TRUE, fs |-> SplashCopied(ConfigWritten(f, cfg), cfg.splash),
          log |-> IF cfg.splash = << >> THEN << >> ELSE <<"cp">>]

\* update_www(): the platform's www removed and replaced by the application's.
update_www(f) ==
    [ok |-> TRUE,
     fs |-> CopyKeys(MkdirKey(RemoveKey(f, At.platformWww), At.platformWww), At.www, At.platformWww),
     log |-> <<"rm", "cp">>]

\* The copy made whether or not there is a merges directory.
update_overrides_unguarded(f) ==
    [ok |-> TRUE, fs |-> CopyKeys(f, At.merges, At.platformWww), log |-> <<"cp">>]

\* update_overrides(): merges/android copied over the platform's www, when
\* there is such a directory.
update_overrides(f) ==
    IF ExistsKey(f, At.merges)
    THEN [ok |-> TRUE, fs |-> CopyKeys(f, At.merges, At.platformWww), log |-> <<"cp">>]
    ELSE [ok |-> TRUE, fs |-> f, log |-> << >>]

\* util.deleteSvnFolders(dir): every .svn directory below dir removed.
deleteSvnFolders(f, dir) ==
    [k \in {q \in DOMAIN f :
               ~(IsPrefix(dir, q) /\ \E n \in (Len(dir) + 1)..Len(q) : q[n] = Seg.svn)} |-> f[k]]

\* update_project with update_www between the two.
ConfiguredThenWww(configured) ==
    IF ~configured.ok THEN [ok |-> FALSE, fs |-> configured.fs, log |-> <<"update_from_config">>]
    ELSE [ok |-> TRUE,
          fs |-> deleteSvnFolders(update_overrides(update_www(configured.fs).fs).fs, At.assets),
          log |-> <<"update_from_config", "update_www", "update_overrides", "deleteSvnFolders">>]

\* What update_project does once update_from_config has run: its throw
\* rejects the promise; else update_overrides, then the .svn folders of
\* assets deleted.
Configured(configured) ==
    IF ~configured.ok THEN [ok |-> FALSE, fs |-> configured.fs, log |-> <<"update_from_config">>]
    ELSE [ok |-> TRUE,
          fs |-> deleteSvnFolders(update_overrides(configured.fs).fs, At.assets),
          log |-> <<"update_from_config", "update_overrides", "deleteSvnFolders">>]

\* update_project(cfg).  It does not call update_www.
update_project(f, cfg) == Configured(update_from_config(f, cfg))

\* The plugin of the tests: a script and a directory for assets/www, one
\* source file for a nested package directory, a plugin entry for config.xml
\* and an activity for the manifest.
ChildBrowser ==
    [assets |-> <<[src |-> At.plugin \o <<Seg.www, Name.childbrowser>>,
                   target |-> Append(At.platformWww, Name.childbrowser)],
                  [src |-> At.plugin \o <<Seg.www, Seg.childbrowser>>,
                   target |-> Append(At.platformWww, Seg.childbrowser)]>>,
     sources |-> <<[src |-> At.plugin \o <<Seg.src, Seg.android, Name.ChildBrowser>>,
                    targetDir |-> At.package]>>,
     plugin |-> [name |-> "ChildBrowser",
                 value |-> "com.phonegap.plugins.childBrowser.ChildBrowser"],
     activity |-> [name |-> "com.phonegap.plugins.childBrowser.ChildBrowser",
                   orientation |-> Absent]]

\* cp -R src target: the entry at sk, with all below it, written at dk.
CopyTree(f, sk, dk) ==
    [p \in DOMAIN f \cup {dk \o SubSeq(q, Len(sk) + 1, Len(q)) : q \in {r \in DOMAIN f : IsPrefix(sk, r)}} |->
        IF IsPrefix(dk, p) /\ sk \o SubSeq(p, Len(dk) + 1, Len(p)) \in DOMAIN f
        THEN f[sk \o SubSeq(p, Len(dk) + 1, Len(p))]
        ELSE f[p]]

RECURSIVE AssetsCopied(_, _)
AssetsCopied(f, assets) ==
    IF assets = << >> THEN f
    ELSE AssetsCopied(CopyTree(f, Head(assets).src, Head(assets).target), Tail(assets))

\* A source file copied into its target directory, created with its parents.
RECURSIVE SourcesCopied(_, _)
SourcesCopied(f, sources) ==
    IF sources = << >> THEN f
    ELSE SourcesCopied(
             WriteAt(MkdirKey(f, Head(sources).targetDir),
                     Append(Head(sources).targetDir, Head(sources).src[Len(Head(sources).src)]),
                     f[Head(sources).src]),
             Tail(sources))

\* An element added to a document unless one of the same key is there.
Grafted(elements, element, same) ==
    IF \E n \in DOMAIN elements : elements[n] \in same THEN elements
    ELSE Append(elements, element)

\* The elements of a document but those of the set drop, in their order.
RECURSIVE Pruned(_, _)
Pruned(elements, drop) ==
    IF elements = << >> THEN << >>
    ELSE IF Head(elements) \in drop THEN Pruned(Tail(elements), drop)
    ELSE <<Head(elements)>> \o Pruned(Tail(elements), drop)

\* The plugin entry of config.xml is keyed by name and value, the activity
\* of the manifest by its name.
DocumentsInstalled(f, plugin) ==
    [k \in DOMAIN f |->
        IF k = At.config
        THEN File([plugins |-> Grafted(f[k].data.plugins, plugin.plugin, {plugin.plugin})])
        ELSE IF k = At.manifest
        THEN File([f[k].data EXCEPT !.activities =
                      Grafted(@, plugin.activity,
                              {a \in {@[n] : n \in DOMAIN @} : a.name = plugin.activity.name})])
        ELSE f[k]]

DocumentsUninstalled(f, plugin) ==
    [k \in DOMAIN f |->
        IF k = At.config
        THEN File([plugins |-> Pruned(f[k].data.plugins, {plugin.plugin})])
        ELSE IF k = At.manifest
        THEN File([f[k].data EXCEPT !.activities =
                      Pruned(@, {a \in {@[n] : n \in DOMAIN @} : a.name = plugin.activity.name})])
        ELSE f[k]]

RECURSIVE AssetsRemoved(_, _)
AssetsRemoved(f, assets) ==
    IF assets = << >> THEN f
    ELSE AssetsRemoved(RemoveKey(f, Head(assets).target), Tail(assets))

\* The walk that does not stop at the source root.
RECURSIVE EmptyDirsRemovedToTheTop(_, _, _)
EmptyDirsRemovedToTheTop(f, curDir, root) ==
    IF curDir = At.project \/ curDir \notin DOMAIN f THEN f
    ELSE IF \E q \in DOMAIN f : IsPrefix(curDir, q) /\ Len(q) > Len(curDir) THEN f
    ELSE EmptyDirsRemovedToTheTop(RemoveKey(f, curDir), Parent(curDir), root)

\* The walk upward from a removed source file's directory: a directory that
\* is empty is removed and the walk goes on with its parent, until the
\* source root or a directory that holds something.
RECURSIVE EmptyDirsRemoved(_, _, _)
EmptyDirsRemoved(f, curDir, root) ==
    IF curDir = root \/ curDir = << >> \/ curDir \notin DOMAIN f THEN f
    ELSE IF \E q \in DOMAIN f : IsPrefix(curDir, q) /\ Len(q) > Len(curDir) THEN f
    ELSE EmptyDirsRemoved(RemoveKey(f, curDir), Parent(curDir), root)

RECURSIVE SourcesRemoved(_, _)
SourcesRemoved(f, sources) ==
    IF sources = << >> THEN f
    ELSE SourcesRemoved(
             EmptyDirsRemoved(
                 RemoveKey(f, Append(Head(sources).targetDir, Head(sources).src[Len(Head(sources).src)])),
                 Head(sources).targetDir, At.src),
             Tail(sources))

\* android.handlePlugin('install', project_dir, plugin_dir, plugin_et)
install(f, plugin) ==
    [ok |-> TRUE,
     fs |-> DocumentsInstalled(SourcesCopied(AssetsCopied(f, plugin.assets), plugin.sources), plugin),
     log |-> <<"cp">>]

\* android.handlePlugin('uninstall', project_dir, plugin_dir, plugin_et)
uninstall(f, plugin) ==
    [ok |-> TRUE,
     fs |-> DocumentsUninstalled(SourcesRemoved(AssetsRemoved(f, plugin.assets), plugin.sources), plugin),
     log |-> <<"rm">>]

\* A tree with the directories its entries lie in.
WithParents(g) ==
    [p \in DOMAIN g \cup UNION {{SubSeq(k, 1, n) : n \in 1..Len(k)} : k \in DOMAIN g} |->
        IF p \in DOMAIN g THEN g[p] ELSE Dir]

\* What is on disk: the application's www, the plugin, the android project.
ProjectFiles ==
    (At.www \o <<Name.index>> :> File([text |-> "w"])) @@
    (At.www \o <<Seg.js, Name.app>> :> File([text |-> "w"])) @@
    (At.www \o <<Seg.js, Seg.svn>> :> Dir) @@
    (At.www \o <<Name.screen>> :> File([text |-> "splash"])) @@
    (At.plugin \o <<Seg.www, Name.childbrowser>> :> File([text |-> "js"])) @@
    (At.plugin \o <<Seg.www, Seg.childbrowser, Name.index>> :> File([text |-> "html"])) @@
    (At.plugin \o <<Seg.src, Seg.android, Name.ChildBrowser>> :> File([text |-> "java"])) @@
    (At.manifest :> File([package |-> "org.old", versionName |-> "1.0",
                          activities |-> <<[name |-> "Main", orientation |-> "VAL"],
                                           [name |-> "Second", orientation |-> "landscape"]>>])) @@
    (At.strings :> File([app_name |-> "old"])) @@
    (At.config :> File([plugins |-> <<[name |-> "App", value |-> "org.apache.cordova.App"]>>])) @@
    (At.platformWww \o <<Name.index>> :> File([text |-> "stale"])) @@
    (At.platformWww \o <<Name.old>> :> File([text |-> "stale"])) @@
    (At.platformWww \o <<Seg.svn>> :> Dir) @@
    (At.src :> Dir)

\* The projects: with and without merges/android; src holding nothing, a
\* file in com, an empty com, or a file in the very directory the plugin's
\* source file goes to.
Projects ==
    {WithParents(ProjectFiles @@ m @@ s) :
        m \in {At.www :> Dir,
               (At.merges \o <<Name.index>> :> File([text |-> "m"])) @@
               (At.merges \o <<Name.style>> :> File([text |-> "m"]))},
        s \in {At.src :> Dir,
               At.src \o <<Seg.com, Name.Other>> :> File([text |-> "java"]),
               At.src \o <<Seg.com>> :> Dir,
               At.package \o <<Name.Other>> :> File([text |-> "java"])}}

\* What update_from_config is handed: a configuration, with its orientation
\* preference and its splash images, or something else.
Configs ==
    [type : {"ConfigParser"}, name : {"new"}, packageName : {"org.new"}, version : {"2.0"},
     orientation : {Absent, "default", "portrait", "landscape", "prtrait"},
     splash : {<< >>, <<[src |-> At.www \o <<Name.screen>>, density |-> Seg.drawable]>>}]
    \cup [type : {"object"}, name : {""}, packageName : {""}, version : {""},
          orientation : {Absent}, splash : {<< >>}]

\* What the last operation on the project was, with the tree it found.
Ran(last, cfg, r, before, installed) ==
    [last |-> last, cfg |-> cfg, ok |-> r.ok, log |-> r.log, before |-> before,
     installed |-> installed]

ProjectInit ==
    /\ fs \in Projects
    /\ localPlugins = Null
    /\ ops = [o \in Slots |->
                 Ran("none", [type |-> "none"], [ok |-> TRUE, log |-> << >>], << >>, FALSE)]
    /\ calls = 0

Run(o, last, cfg, r, installed) ==
    /\ fs' = r.fs
    /\ ops' = [ops EXCEPT ![o] = Ran(last, cfg, r, fs, installed)]
    /\ calls' = calls + 1
    /\ UNCHANGED localPlugins

UpdateFromConfig(o, cfg) ==
    /\ calls < MaxCalls
    /\ Run(o, "update_from_config", cfg, update_from_config(fs, cfg), ops[o].installed)

UpdateWww(o) ==
    /\ calls < MaxCalls
    /\ Run(o, "update_www", [type |-> "none"], update_www(fs), ops[o].installed)

UpdateOverrides(o) ==
    /\ calls < MaxCalls
    /\ Run(o, "update_overrides", [type |-> "none"], update_overrides(fs), ops[o].installed)

UpdateProject(o, cfg) ==
    /\ calls < MaxCalls
    /\ Run(o, "update_project", cfg, update_project(fs, cfg), ops[o].installed)

Install(o) ==
    /\ calls < MaxCalls
    /\ Run(o, "install", [type |-> "none"], install(fs, ChildBrowser), TRUE)

\* A plugin is uninstalled from the project it was installed in.
Uninstall(o) ==
    /\ calls < MaxCalls
    /\ ops[o].installed
    /\ Run(o, "uninstall", [type |-> "none"], uninstall(fs, ChildBrowser), FALSE)

ProjectNext ==
    \/ \E cfg \in Configs : UpdateFromConfig(1, cfg)
    \/ UpdateWww(1)
    \/ UpdateOverrides(1)
    \/ \E cfg \in Configs : UpdateProject(1, cfg)
    \/ Install(1)
    \/ Uninstall(1)

ProjectSpec == ProjectInit /\ [][ProjectNext]_vars

-----------------------------------------------------------------------------
(* Properties                                                              *)

\* The reference a caller passed, with its fragment cut off.
Stripped(plugin_src) ==
    IF IndexOf(plugin_src, "#") = 0 THEN plugin_src
    ELSE SubSeq(plugin_src, 1, IndexOf(plugin_src, "#") - 1)

\* The entries of the plugin store: everything below plugins_dir.
InStore(k) == IsPrefix(Segments(PluginsDir), k) /\ Len(k) > Len(Segments(PluginsDir))

StoreOf(f) == [k \in {q \in DOMAIN f : InStore(q)} |-> f[k]]

\* C1: a call whose reference, fragment stripped, is a git URL and whose
\* options set link is rejected with UnsupportedOperation and has never
\* invoked the clone, whatever the cache and the plugin store hold.
C1_GitLinkUnsupported ==
    \A o \in Slots :
        (/\ ops[o].pc # "idle"
         /\ IsNetworkURL(Stripped(ops[o].args.plugin_src))
         /\ ops[o].args.options.link)
        => (/\ ops[o].pc = "rejected"
            /\ ops[o].err = "UnsupportedOperation"
            /\ "clonePluginGit" \notin ops[o].called)

\* A linked git URL with a fragment is rejected after an earlier call built
\* the index and filled the store.
C1_Witness ==
    /\ ops[1].pc = "rejected"
    /\ ops[1].err = "UnsupportedOperation"
    /\ ops[1].args.options.link
    /\ ops[1].reentries = 1
    /\ IsNetworkURL(ops[1].plugin_src)
    /\ DOMAIN StoreOf(fs) # {}

\* A step in which the call of slot o returns its promise.
Returns(o) == ops[o].pc = "idle" /\ ops'[o].pc # "idle"

\* The source fetchPlugin chose, against what the disk (f) and the index
\* (cache) held when it chose: op is the operation as the call left it.
Precedence(op, f, cache, plugin_src, plugin_dir) ==
    /\ ExistsSync(f, plugin_dir)
         => (op.route = "path" /\ op.dir = plugin_dir /\ op.called = {})
    /\ (~ExistsSync(f, plugin_dir) /\ plugin_src \in DOMAIN cache.map)
         => (op.route = "searchpath" /\ op.dir = cache.map[plugin_src].dir /\ op.called = {})
    /\ (~ExistsSync(f, plugin_dir) /\ plugin_src \notin DOMAIN cache.map
        /\ ~op.args.options.noregistry)
         => (op.route = "registry" /\ op.called = {"registry.fetch"})

\* C2: for a reference that is no git URL the source is chosen by strict
\* precedence: path.join(reference, subdir) when it exists on disk, even if
\* the index holds the reference too; else the index's entry for the
\* reference; else, unless noregistry is set, the registry.
C2_Precedence ==
    [][\A o \in Slots :
          (Returns(o) /\ ~IsNetworkURL(Stripped(ops'[o].args.plugin_src)))
          => Precedence(ops'[o], fs', localPlugins', Stripped(ops'[o].args.plugin_src),
                        PathJoin(Stripped(ops'[o].args.plugin_src), ops'[o].options.subdir))]_vars

\* The path on disk was taken although the index holds the reference.
C2_Witness ==
    /\ ops[1].pc = "copy"
    /\ ops[1].route = "path"
    /\ localPlugins.built
    /\ ops[1].plugin_src \in DOMAIN localPlugins.map

\* What fetchPlugin does when nothing local answers the reference and the
\* registry is disabled.
NotFound(op, f, after, cache, plugin_src, plugin_dir) ==
    (/\ ~ExistsSync(after, plugin_dir)
     /\ plugin_src \notin DOMAIN cache.map
     /\ op.args.options.noregistry)
    => (/\ op.pc = "rejected"
        /\ op.err = "NotFound"
        /\ op.called = {}
        /\ StoreOf(after) = StoreOf(f))

\* C3: when a reference that is no git URL names no existing path and no
\* entry of the index, and noregistry is set, fetchPlugin is rejected with
\* NotFound, never calls the registry, and leaves the plugin store holding
\* exactly what it held.
C3_NotFound ==
    [][\A o \in Slots :
          (Returns(o) /\ ~IsNetworkURL(Stripped(ops'[o].args.plugin_src)))
          => NotFound(ops'[o], fs, fs', localPlugins', Stripped(ops'[o].args.plugin_src),
                      PathJoin(Stripped(ops'[o].args.plugin_src), ops'[o].options.subdir))]_vars

\* A NotFound rejection with plugins in the store.
C3_Witness ==
    /\ ops[1].pc = "rejected"
    /\ ops[1].err = "NotFound"
    /\ ops[1].args.options.noregistry
    /\ ops[1].called = {}
    /\ DOMAIN StoreOf(fs) # {}

\* The symbolic links a step has made or changed.
NewLinks(f, after) ==
    {k \in DOMAIN after : after[k].type = "link" /\ (k \notin DOMAIN f \/ f[k] # after[k])}

\* C4: what the registry fetched is copied into the plugin store, never
\* linked, whatever options.link says; a symbolic link is made only by the
\* copy step of an operation with link set whose source is an existing path
\* or an entry of the index.
C4_RegistryCopied ==
    [][/\ \A o \in Slots :
            (ops[o].pc = "copy" /\ ops[o].route = "registry" /\ ops'[o].pc = "check")
            => IsDirKey(fs', LResolve(fs', ops'[o].dir))
       /\ NewLinks(fs, fs') # {}
            => \E o \in Slots : /\ ops[o].pc = "copy"
                                /\ ops[o].args.options.link
                                /\ ops[o].route \in {"path", "searchpath"}]_vars

\* A registry fetch with link set has been copied into a directory.
C4_Witness ==
    /\ ops[1].pc = "check"
    /\ ops[1].route = "registry"
    /\ ops[1].args.options.link
    /\ IsDirKey(fs, LResolve(fs, ops[1].dir))
    /\ \A k \in DOMAIN StoreOf(fs) : fs[k].type # "link"

\* expected_id read as id or id@version against a descriptor.
ExpectedMatches(expected_id, d) ==
    IF IndexOf(expected_id, "@") = 0
    THEN d.id = expected_id
    ELSE /\ d.id = SubSeq(expected_id, 1, IndexOf(expected_id, "@") - 1)
         /\ d.version = From(expected_id, IndexOf(expected_id, "@"))

Verified(op) == \E n \in DOMAIN op.trace : op.trace[n] = "verify"

\* C5: without an expected id the identity check does nothing; with
\* id@version it passes exactly when the descriptor has that id and that
\* very version; with a bare id it passes exactly when the descriptor has
\* that id, whatever its version; otherwise it fails with IdentityMismatch.
C5_IdentityCheck ==
    \A o \in Slots :
        ops[o].pc # "idle" =>
            /\ ops[o].args.options.expected_id = Empty
                 => (ops[o].err \notin {"IdentityMismatch", "NoManifest"} /\ ops[o].checked = << >>)
            /\ ops[o].checked # << >>
                 => /\ Verified(ops[o])
                        <=> ExpectedMatches(ops[o].args.options.expected_id, ops[o].checked[1])
                    /\ ops[o].err = "IdentityMismatch"
                        <=> ~ExpectedMatches(ops[o].args.options.expected_id, ops[o].checked[1])

\* The right plugin in the wrong version fails the check.
C5_Witness ==
    /\ ops[1].pc = "rejected"
    /\ ops[1].err = "IdentityMismatch"
    /\ ops[1].args.options.expected_id = <<"x", "@", "1">>
    /\ ops[1].checked = <<Descriptor(Str_x, <<"2">>)>>

\* The directory holds a manifest that answers expected_id.
Answers(expected_id, pinfo) ==
    pinfo.ok /\ ExpectedMatches(expected_id, Descriptor(pinfo.id, pinfo.version))

\* C6: the identity check is the last gate on every path: when a call made
\* with an expected id is fulfilled, the check has run on the directory it
\* returns and the manifest there answers the expected id, be the source a
\* git clone, an existing path, an entry of the index or the registry.
C6_FinalGate ==
    \A o \in Slots :
        (ops[o].pc = "fulfilled" /\ ops[o].args.options.expected_id # Empty)
        => (/\ Verified(ops[o])
            /\ ops[o].checked # << >>
            /\ Answers(ops[o].args.options.expected_id, PluginInfo(fs, ops[o].dir)))

\* A git clone fetched with an expected id and version is fulfilled.
C6_Witness ==
    /\ ops[1].pc = "fulfilled"
    /\ ops[1].route = "git"
    /\ ops[1].args.options.expected_id = <<"x", "@", "1">>
    /\ PluginInfo(fs, ops[1].dir).ok

Steps == <<"resolve", "materialize", "verify", "provenance">>

\* C7: the steps of one operation come in order, one at a time: the source
\* is resolved before anything is materialized, and materialized before
\* its identity is verified.
C7_StepOrder ==
    \A o \in Slots :
        ops[o].pc # "idle" =>
            /\ Len(ops[o].trace) <= Len(Steps)
            /\ ops[o].trace = SubSeq(Steps, 1, Len(ops[o].trace))
            /\ ops[o].pc = "copy" => ops[o].trace = <<"resolve">>
            /\ ops[o].pc = "check" => ops[o].trace = <<"resolve", "materialize">>
            /\ ops[o].pc \in {"clone", "registry"} => ops[o].trace = << >>

\* A registry fetch has gone through its three steps.
C7_Witness ==
    /\ ops[1].pc = "fulfilled"
    /\ ops[1].route = "registry"
    /\ ops[1].trace = <<"resolve", "materialize", "verify">>

\* C8: the index is built at most once: once built, no fetchPlugin call,
\* whatever its search path, adds, removes or replaces an entry.
C8_BuiltOnce == [][localPlugins.built => localPlugins' = localPlugins]_vars

\* The index built from [/a, /b] answered a later call whose search path
\* is /b then /a.
C8_Witness ==
    /\ calls = 2
    /\ localPlugins.built
    /\ ops[1].route = "searchpath"
    /\ ops[1].options.searchpath.value = <<SearchB, SearchA>>
    /\ ops[1].plugin_src = Str_y
    /\ ops[1].dir = PathJoin(SearchB, Str_y)
    /\ localPlugins.map[Str_x].dir = PathJoin(SearchB, Str_x)

\* The plugins called id among those a scan found.
Called(found, id) == {found[n] : n \in {m \in DOMAIN found : found[m].id = id}}

\* Directory j of the search path is the last that holds a plugin called id,
\* and an earlier one holds one too.
LastOfSeveral(f, searchpath, j, id) ==
    /\ Called(loadPluginsDir(f, searchpath[j]), id) # {}
    /\ \E i \in 1..(j - 1) : Called(loadPluginsDir(f, searchpath[i]), id) # {}
    /\ \A k \in (j + 1)..Len(searchpath) : Called(loadPluginsDir(f, searchpath[k]), id) = {}

LaterWins(f, searchpath, map) ==
    \A j \in DOMAIN searchpath : \A id \in {Str_x, Str_y} :
        LastOfSeveral(f, searchpath, j, id)
        => (id \in DOMAIN map /\ map[id] \in Called(loadPluginsDir(f, searchpath[j]), id))

\* C9: when the index is built from a search path scanned in the order
\* configured and two of its directories hold a plugin with the same id, the
\* index answers that id with the descriptor from the directory scanned
\* later.
C9_LaterWins ==
    [][\A o \in Slots :
          (Returns(o) /\ ~localPlugins.built /\ localPlugins'.built)
          => LaterWins(fs, ops'[o].options.searchpath.value, localPlugins'.map)]_vars

\* Built from [/a, /b], the index answers x with the plugin of /b.
C9_Witness ==
    /\ calls = 1
    /\ localPlugins.built
    /\ ops[1].args.options.searchpath.value = <<SearchA, SearchB>>
    /\ localPlugins.map[Str_x].dir = PathJoin(SearchB, Str_x)
    /\ localPlugins.map[Str_x].version = <<"2">>

\* What a directory holds, by the paths below it, its provenance record apart.
Contents(f, k) ==
    [rel \in {SubSeq(q, Len(k) + 1, Len(q)) :
                 q \in {p \in DOMAIN f : IsPrefix(k, p) /\ Len(p) > Len(k)}} \ {<<FetchJson>>} |->
        f[k \o rel]]

\* C10: copyPlugin replaces and repeats: whatever plugins_dir/<id> held,
\* after a copy it holds exactly what the source directory held, so that a
\* second copy of the same source leaves the same contents again.
C10_DestructiveIdempotent ==
    [][\A o \in Slots :
          (/\ ops[o].pc = "copy"
           /\ ops'[o].pc = "check"
           /\ ~(ops[o].options.link /\ ops[o].linkable))
          => Contents(fs', Resolve(fs', ops'[o].dir)) = Contents(fs, Resolve(fs, ops[o].dir))]_vars

\* The provenance record of a directory, if it holds one.
ProvenanceAt(f, k) ==
    IF k # ELOOP /\ Append(k, FetchJson) \in DOMAIN f /\ f[Append(k, FetchJson)].type = "file"
    THEN f[Append(k, FetchJson)].data.source
    ELSE NoData.source

\* The kind of source each way of resolving stands for.
SourceType(route) ==
    CASE route = "git" -> "git"
      [] route \in {"path", "searchpath"} -> "local"
      [] route = "registry" -> "registry"
      [] OTHER -> "none"

\* The operation has written its provenance record: the copy has returned
\* (lines 181-187), or the clone's chain has run its second callback.
Provenanced(op) ==
    \E n \in DOMAIN op.trace :
        op.trace[n] = (IF op.route = "git" THEN "provenance" ELSE "materialize")

\* C11: the provenance record of a materialized plugin names the way its
\* source was obtained: git for a clone, local for an existing path or an
\* entry of the index, registry for a registry fetch.
C11_ProvenanceNamesSource ==
    \A o \in Slots :
        (ops[o].pc # "idle" /\ Provenanced(ops[o]))
        => ProvenanceAt(fs, Resolve(fs, ops[o].dir)).type = SourceType(ops[o].route)

\* The fragment of a reference as the grammar #ref[:subdir] reads it: what
\* follows the first '#', the ref up to the first ':', the subdir after it
\* with every leading and trailing separator stripped.
FragmentOf(plugin_src) ==
    IF IndexOf(plugin_src, "#") = 0 THEN Empty ELSE From(plugin_src, IndexOf(plugin_src, "#"))

RECURSIVE TrimLeft(_)
TrimLeft(s) == IF s # << >> /\ Head(s) = "/" THEN TrimLeft(Tail(s)) ELSE s

RECURSIVE TrimRight(_)
TrimRight(s) ==
    IF s # << >> /\ s[Len(s)] = "/" THEN TrimRight(SubSeq(s, 1, Len(s) - 1)) ELSE s

FragmentRef(fragment) ==
    IF IndexOf(fragment, ":") = 0 THEN fragment
    ELSE SubSeq(fragment, 1, IndexOf(fragment, ":") - 1)

FragmentSubdir(fragment) ==
    IF IndexOf(fragment, ":") = 0 THEN Empty
    ELSE TrimRight(TrimLeft(From(fragment, IndexOf(fragment, ":"))))

Supplied(options, ref, subdir) == [options EXCEPT !.git_ref = ref, !.subdir = subdir]

\* What a call came to: the source it resolved, the promise it returned, the
\* data it is to record, and the options its callbacks and collaborators
\* read (the clone reads git_ref and subdir, lines 87 and 78-85).
Outcome(op) ==
    [plugin_src |-> op.plugin_src, route |-> op.route, pc |-> op.pc, err |-> op.err,
     dir |-> op.dir, linkable |-> op.linkable, called |-> op.called, data |-> op.data,
     link |-> op.options.link, expected_id |-> op.options.expected_id,
     git_ref |-> IF op.route = "git" THEN op.options.git_ref ELSE Empty,
     subdir |-> IF op.route = "git" THEN op.options.subdir ELSE Empty]

SameAs(op, f, cache, r) ==
    /\ Outcome(op) = Outcome(r.op)
    /\ f = r.fs
    /\ cache = r.cache

\* C12: fetchPlugin on a reference with a fragment #ref:subdir does what
\* fetchPlugin does on the reference without the fragment and with ref and
\* subdir given in the options: same resolution, same arguments to the
\* collaborators, same result; and the stripped reference has no fragment
\* left to parse.
C12_FragmentAsOptions ==
    [][\A o \in Slots :
          (/\ Returns(o)
           /\ FragmentRef(FragmentOf(ops'[o].args.plugin_src)) # Empty
           /\ FragmentSubdir(FragmentOf(ops'[o].args.plugin_src)) # Empty)
          => (/\ SameAs(ops'[o], fs', localPlugins',
                        fetchPlugin(fs, localPlugins, Stripped(ops'[o].args.plugin_src),
                                    PluginsDir,
                                    Supplied(ops'[o].args.options,
                                             FragmentRef(FragmentOf(ops'[o].args.plugin_src)),
                                             FragmentSubdir(FragmentOf(ops'[o].args.plugin_src)))))
              /\ UrlHash(Stripped(ops'[o].args.plugin_src)) = Empty)]_vars

\* C13: the subdir taken from a fragment neither begins nor ends with a
\* path separator, however many slashes the fragment puts around it.
C13_SubdirTrimmed ==
    \A o \in Slots :
        (ops[o].pc # "idle" /\ FragmentSubdir(FragmentOf(ops[o].args.plugin_src)) # Empty)
        => (/\ Head(ops[o].options.subdir) # "/"
            /\ ops[o].options.subdir[Len(ops[o].options.subdir)] # "/")

\* C14: fetchPlugin re-enters itself at most once, and only for a
\* reference with a fragment; the reference it then resolves carries no
\* fragment.
C14_OneReentry ==
    \A o \in Slots :
        ops[o].pc # "idle" =>
            /\ ops[o].reentries <= 1
            /\ ops[o].reentries = 1 <=> IndexOf(ops[o].args.plugin_src, "#") # 0
            /\ IndexOf(ops[o].plugin_src, "#") = 0
            /\ ops[o].plugin_src = Stripped(ops[o].args.plugin_src)

\* A reference with two '#' re-entered once and went on to the clone.
C14_Witness ==
    /\ ops[1].pc = "clone"
    /\ ops[1].reentries = 1
    /\ ops[1].args.plugin_src = GitUrl \o <<"#", "r", "#", "s">>
    /\ ops[1].options.git_ref = <<"r", "#", "s">>

\* A URL scheme that names a network protocol: not file:, not one letter.
NetworkScheme(protocol) ==
    /\ protocol # Empty
    /\ protocol # <<"f", "i", "l", "e", ":">>
    /\ Len(protocol) # 2

\* C15: a reference is a git source exactly when it is a URL with a network
\* scheme; a path, a file: URL and a drive reference, whatever its letter and
\* its slashes, are resolved as a path or a plugin id.
C15_GitIffNetworkScheme ==
    \A o \in Slots :
        ops[o].pc # "idle" =>
            (ops[o].route = "git" <=> NetworkScheme(UrlProtocol(Stripped(ops[o].args.plugin_src))))

\* The configuration update that has just run on the project.
ConfigUpdate == calls' = calls + 1 /\ ops'[1].last = "update_from_config" /\ ops'[1].ok

\* What the policy makes of an attribute's value.
PolicyValue(preference, value) ==
    IF preference = "default" THEN Absent
    ELSE IF preference \in {"portrait", "landscape"} THEN preference
    ELSE value

PolicyApplied(preference, old, new) ==
    /\ DOMAIN new = DOMAIN old
    /\ \A n \in DOMAIN old :
          /\ new[n].name = old[n].name
          /\ new[n].orientation = PolicyValue(preference, old[n].orientation)

\* C16: update_from_config leaves every activity's screenOrientation as it
\* was when the preference is absent or is no recognised value, removes it
\* on 'default', and sets it to 'portrait' or 'landscape' on these.
C16_OrientationPolicy ==
    [][ConfigUpdate =>
          PolicyApplied(ops'[1].cfg.orientation,
                        fs[At.manifest].data.activities, fs'[At.manifest].data.activities)]_vars

\* An unrecognised preference has left the attribute of the first activity.
C16_Witness ==
    /\ calls = 1
    /\ ops[1].last = "update_from_config"
    /\ ops[1].ok
    /\ ops[1].cfg.orientation = "prtrait"
    /\ fs[At.manifest].data.activities[1].orientation = "VAL"
    /\ fs[At.manifest].data.package = "org.new"

\* The full update that has just run on the project.
ProjectUpdate == calls' = calls + 1 /\ ops'[1].last = "update_project"

\* No .svn directory is left below dir.
NoSvnBelow(f, dir) ==
    ~\E q \in DOMAIN f : IsPrefix(dir, q) /\ \E n \in (Len(dir) + 1)..Len(q) : q[n] = Seg.svn

\* The files of merges/android are what their counterparts in the platform's
\* www hold.
Overridden(before, after) ==
    \A k \in DOMAIN before :
        (IsPrefix(At.merges, k) /\ before[k].type = "file")
            => /\ At.platformWww \o SubSeq(k, Len(At.merges) + 1, Len(k)) \in DOMAIN after
               /\ after[At.platformWww \o SubSeq(k, Len(At.merges) + 1, Len(k))] = before[k]

\* C17 as the specification states it: update_project performs
\* update_from_config, then update_www, then update_overrides, in that
\* order, then removes the version-control artifacts, each on every full
\* update.
C17_ThreeInFixedOrder ==
    [][(ProjectUpdate /\ ops'[1].ok) =>
          ops'[1].log = <<"update_from_config", "update_www", "update_overrides", "deleteSvnFolders">>]_vars

\* C17, amended: update_project performs update_from_config, then
\* update_overrides, then removes the version-control artifacts of assets;
\* it does not perform update_www, so what the platform's www held and no
\* override replaces stays; when update_from_config throws, nothing follows.
C17_ConfigThenOverrides ==
    [][ProjectUpdate =>
          IF ops'[1].ok
          THEN /\ ops'[1].log = <<"update_from_config", "update_overrides", "deleteSvnFolders">>
               /\ fs'[At.manifest].data.package = ops'[1].cfg.packageName
               /\ fs'[At.strings].data.app_name = ops'[1].cfg.name
               /\ Overridden(fs, fs')
               /\ NoSvnBelow(fs', At.assets)
               /\ \A k \in DOMAIN fs :
                     (IsPrefix(At.platformWww, k) /\ fs[k].type = "file")
                         => k \in DOMAIN fs'
               /\ \A k \in DOMAIN fs :
                     (IsPrefix(At.platformWww, k) /\ fs[k].type = "file"
                        /\ At.merges \o SubSeq(k, Len(At.platformWww) + 1, Len(k)) \notin DOMAIN fs)
                         => fs'[k] = fs[k]
          ELSE /\ ops'[1].log = <<"update_from_config">>
               /\ fs' = fs]_vars

\* A full update has run on a project with merges/android: the override is
\* in the platform's www, next to a file the application's www never had.
C17_Witness ==
    /\ calls = 1
    /\ ops[1].last = "update_project"
    /\ ops[1].ok
    /\ fs[Append(At.platformWww, Name.index)] = File([text |-> "m"])
    /\ Append(At.platformWww, Name.old) \in DOMAIN fs
    /\ Append(At.platformWww, Seg.svn) \notin DOMAIN fs
    /\ Append(At.platformWww, Seg.svn) \in DOMAIN ops[1].before

\* The plugin uninstalled right after its installation.
InstallUndone ==
    /\ calls' = calls + 1
    /\ ops[1].last = "install"
    /\ ops'[1].last = "uninstall"

Uninstalled == calls' = calls + 1 /\ ops'[1].last = "uninstall"

\* The source file of the plugin in the project, and the directories from
\* its own up to, and without, the source root.
SourceFile == Append(At.package, Name.ChildBrowser)

Ancestors == {SubSeq(At.package, 1, n) : n \in (Len(At.src) + 1)..Len(At.package)}

\* What dir holds in f besides the plugin's source file and the directories
\* leading to it.
OtherContent(f, dir) ==
    {q \in DOMAIN f : IsPrefix(dir, q) /\ Len(q) > Len(dir) /\ q # SourceFile /\ q \notin Ancestors}

\* C19: on uninstall the source file is deleted and, walking upward from its
\* directory, every directory that has become empty is deleted; the source
\* root src is never deleted, nor is a directory that holds other content,
\* nor that content.
C19_EmptyAncestorsRemoved ==
    [][Uninstalled =>
          /\ SourceFile \notin DOMAIN fs'
          /\ At.src \in DOMAIN fs' /\ fs'[At.src] = Dir
          /\ \A d \in Ancestors :
                /\ (d \in DOMAIN fs /\ OtherContent(fs, d) = {}) => d \notin DOMAIN fs'
                /\ (d \in DOMAIN fs /\ OtherContent(fs, d) # {}) => d \in DOMAIN fs'
                /\ d \in DOMAIN fs' => \E q \in DOMAIN fs' : IsPrefix(d, q) /\ Len(q) > Len(d)
          /\ \A q \in OtherContent(fs, At.src) : q \in DOMAIN fs' /\ fs'[q] = fs[q]]_vars

\* The plugin has been uninstalled from a project with a file of its own in
\* com: the plugin's file and its emptied directories are gone, com is kept.
C19_Witness ==
    /\ ops[1].last = "uninstall"
    /\ SourceFile \in DOMAIN ops[1].before
    /\ At.package \notin DOMAIN fs
    /\ At.src \o <<Seg.com, Seg.phonegap>> \notin DOMAIN fs
    /\ At.src \o <<Seg.com, Name.Other>> \in DOMAIN fs
    /\ At.src \in DOMAIN fs

\* The application of the overrides that has just run on the project.
OverridesApplied == calls' = calls + 1 /\ ops'[1].last = "update_overrides"

\* C20: update_overrides performs no file operation when merges/android
\* does not exist; when it exists, every file of it replaces its counterpart
\* in the platform's www, and nothing else changes.
C20_OverridesWin ==
    [][OverridesApplied =>
          IF At.merges \in DOMAIN fs
          THEN /\ Overridden(fs, fs')
               /\ \A k \in DOMAIN fs :
                     At.merges \o SubSeq(k, Len(At.platformWww) + 1, Len(k)) \notin DOMAIN fs
                        \/ ~IsPrefix(At.platformWww, k)
                        => k \in DOMAIN fs' /\ fs'[k] = fs[k]
          ELSE ops'[1].log = << >> /\ fs' = fs]_vars

\* The overrides have been applied after the web assets were synced: the
\* platform's index.html is the one of merges/android, no longer the
\* application's, and the file only merges/android has is there too.
C20_Witness ==
    /\ calls = 2
    /\ ops[1].last = "update_overrides"
    /\ ops[1].before[Append(At.platformWww, Name.index)] = File([text |-> "w"])
    /\ fs[Append(At.platformWww, Name.index)] = File([text |-> "m"])
    /\ fs[Append(At.platformWww, Name.style)] = File([text |-> "m"])
    /\ fs[At.platformWww \o <<Seg.js, Name.app>>] = File([text |-> "w"])

\* The identity check of operation o, on the chain of a local source, runs
\* in this step.
LocalCheck(o) ==
    /\ ops[o].pc = "check"
    /\ ops'[o].pc # "check"
    /\ ops[o].route # "git"

\* What the check must have read in a store directory whose provenance
\* record is that of a copy: the plugin of the source directory the record
\* names.  (A clone's chain may have replaced the directory or its record.)
ReadFrom(f, source, read) ==
    source.type = "local" => read = Read(PluginInfo(f, source.path))

\* The verdict of a check that read the manifest read.
Verdict(expected_id, read) ==
    IF expected_id = read[1].id \o <<"@">> \o read[1].version THEN "ok" ELSE "IdentityMismatch"

\* C21: the identity check is a callback of its own, run after the copy: it
\* reads the store directory as the last materialization into it left it,
\* which another operation may have made in between, and its verdict is on
\* that plugin, whatever the operation's own source holds.
C21_CheckReadsLastMaterialized ==
    [][\A o \in Slots :
          LocalCheck(o) =>
              /\ Parent(Resolve(fs, ops[o].dir)) = Resolve(fs, PluginsDir)
              /\ ReadFrom(fs, ProvenanceAt(fs, Resolve(fs, ops[o].dir)), ops'[o].checked)
              /\ Verdict(ops[o].options.expected_id, ops'[o].checked)
                    = (IF ops'[o].pc = "rejected" THEN ops'[o].err ELSE "ok")]_vars

\* The first operation fetched /a/x, which is x 1 as its caller expects, and
\* is rejected: between its copy and its check the second operation copied
\* /b/x, which is x 2, into the same directory of the store.
C21_Witness ==
    /\ ops[1].plugin_src = SearchA \o <<"/", "x">>
    /\ ops[1].options.expected_id = <<"x", "@", "1">>
    /\ PluginInfo(fs, ops[1].plugin_src).version = <<"1">>
    /\ ops[1].pc = "rejected"
    /\ ops[1].err = "IdentityMismatch"
    /\ ops[1].trace = <<"resolve", "materialize">>
    /\ ops[1].checked = <<Descriptor(Str_x, <<"2">>)>>
    /\ ops[2].plugin_src = SearchB \o <<"/", "x">>
    /\ ProvenanceAt(fs, <<PluginsDir, Str_x>>) = [type |-> "local", path |-> ops[2].plugin_src]

\* The identity check has rejected the operation.
Mismatched(op) == op.pc = "rejected" /\ op.err = "IdentityMismatch"

\* The store directory k holds the plugin read, the provenance record of a
\* copy, and beside them what the source the record names holds.
Materialized(f, k, read, source) ==
    /\ IsDirKey(f, k)
    /\ read = Read(ManifestAt(f, Append(k, PluginXml), Empty))
    /\ source.type = "local"
    /\ Contents(f, k) = Contents(f, Resolve(f, source.path))

\* C22: when the identity check fails for a source that is no git URL, the
\* plugin is materialized already and stays: the directory of the store
\* holds the mismatching plugin in place of what it held, with its
\* provenance record.  When it fails for a clone, the clone's provenance
\* record is not written.
C22_NoRollback ==
    \A o \in Slots :
        Mismatched(ops[o]) =>
            /\ ops[o].trace = <<"resolve", "materialize">>
            /\ Parent(Resolve(fs, ops[o].dir)) = Resolve(fs, PluginsDir)
                  \/ (ops[o].options.link /\ ops[o].linkable)
            /\ IF ops[o].route = "git"
               THEN ProvenanceAt(fs, Resolve(fs, ops[o].dir)).type = "none"
               ELSE Materialized(fs, Resolve(fs, ops[o].dir), ops[o].checked,
                                 ProvenanceAt(fs, Resolve(fs, ops[o].dir)))

\* The registry's x 2 was copied over the x 1 an earlier call had put in
\* the store, and the check for x@1 has then failed.
C22_Witness ==
    /\ calls = 2
    /\ Mismatched(ops[1])
    /\ ops[1].route = "registry"
    /\ ops[1].options.expected_id = <<"x", "@", "1">>
    /\ ops[1].dir = StoreX
    /\ fs[<<PluginsDir, Str_x, PluginXml>>].data = Descriptor(Str_x, <<"2">>)
    /\ fs[<<PluginsDir, Str_x, FetchJson>>].data.source.type = "local"

\* The callback of lines 128-131 runs for operation o in this step.
CopyStep(o) == ops[o].pc = "copy" /\ ops'[o].pc # "copy"

\* C23: copyPlugin leaves the source directory as it found it: whatever the
\* source, the store's own directory of the plugin included, its files are
\* after the copy what they were before (the provenance record apart).
C23_SourceUntouched ==
    [][\A o \in Slots :
          CopyStep(o) =>
              Contents(fs', Resolve(fs, ops[o].dir)) = Contents(fs, Resolve(fs, ops[o].dir))]_vars

\* The options resolution saw are the caller's, but for git_ref when the
\* fragment has a ref and for subdir when the fragment has a subdir (compared
\* without the separators around it); an absent subdir reads '.', an absent
\* search path is empty.
FragmentApplied(seen, given, ref, subdir) ==
    /\ seen.git_ref = (IF ref # Empty THEN ref ELSE given.git_ref)
    /\ IF subdir # Empty
       THEN TrimRight(TrimLeft(seen.subdir)) = subdir
       ELSE seen.subdir = (IF given.subdir = Empty THEN Dot ELSE given.subdir)
    /\ seen.link = given.link
    /\ seen.noregistry = given.noregistry
    /\ seen.expected_id = given.expected_id
    /\ seen.searchpath = [type |-> "array", value |-> << >>]

\* C24: a ref or a subdir the fragment gives replaces the git_ref or the
\* subdir of the caller's options, one the fragment leaves empty leaves the
\* caller's value, and nothing else of the options changes.
C24_FragmentOverrides ==
    \A o \in Slots :
        ops[o].pc # "idle" =>
            FragmentApplied(ops[o].options, ops[o].args.options,
                         FragmentRef(FragmentOf(ops[o].args.plugin_src)),
                         FragmentSubdir(FragmentOf(ops[o].args.plugin_src)))

\* The fragment gave a subdir and no ref: the clone is asked for the
\* caller's git_ref and the fragment's subdir.
C24_Witness ==
    /\ ops[1].args.plugin_src = GitUrl \o <<"#", ":", "s">>
    /\ ops[1].args.options.git_ref = <<"q">>
    /\ ops[1].args.options.subdir = <<"t">>
    /\ ops[1].pc = "clone"
    /\ ops[1].reentries = 1
    /\ ops[1].options.git_ref = <<"q">>
    /\ ops[1].options.subdir = <<"s">>

====
